---- MODULE Spec2Model ----
(***************************************************************************)
(* Model of app.py, the Streamlit dashboard "Forecasting Medicine          *)
(* Requirements for a Hospital".                                           *)
(*                                                                         *)
(* One script run = one action: Streamlit re-executes app.py from the top  *)
(* for every page render, so every action is "load_data() through its      *)
(* st.cache_data wrapper, then the branch of the selected page".           *)
(*                                                                         *)
(* A table (DataFrame) is [cols |-> set of column names, rows |-> sequence *)
(* of rows]; a row is [index |-> pandas row label, cells |-> function from *)
(* the columns to the cell values].  A text cell of a CSV file is a        *)
(* sequence of one-character strings where the code parses it (Month,      *)
(* Year) and a string elsewhere.  A missing string cell is NaN.            *)
(***************************************************************************)
EXTENDS Integers, Sequences, FiniteSets, TLC

VARIABLES
    srcMeds,            \* contents of medication_summary.csv
    srcAfc,             \* contents of actual_forecast_combined.csv
    cache,              \* st.cache_data entry of load_data
    reads,              \* number of executions of load_data's body
    meds,               \* module global meds at the end of the last run
    afc,                \* module global afc at the end of the last run
    page,               \* page rendered by the last run
    runs,               \* number of script runs so far
    out                 \* what the last run handed to the presentation layer

vars == <<srcMeds, srcAfc, cache, reads, meds, afc, page, runs, out>>

---------------------------------------------------------------------------
(* Program constants *)

YearLo == 2020
YearHi == 2025
TopMedsN == 5
TopCostN == 10
HeadRows == 50

(* Bounds of the model *)

MaxMedsRows == 2
MaxAfcRows == 4
MaxDeptGroups == 52
MaxRuns == 2

---------------------------------------------------------------------------
(* Values *)

NaN == "NaN"
None == "None"

Range(s) == {s[i] : i \in DOMAIN s}

Min(a, b) == IF a <= b THEN a ELSE b

\* the generated medicine names of the large department tables
MedNames ==
    << "Med01", "Med02", "Med03", "Med04", "Med05", "Med06", "Med07",
       "Med08", "Med09", "Med10", "Med11", "Med12", "Med13", "Med14",
       "Med15", "Med16", "Med17", "Med18", "Med19", "Med20", "Med21",
       "Med22", "Med23", "Med24", "Med25" >>

\* Code-point order of the strings of the model (Python's str.__lt__).
StrOrder ==
    << "Actual", "Aspirin", "Codeine", "Forecast", "Ibuprofen" >>
    \o MedNames
    \o << "Projected", "ambulatory", "emergency", "inpatient", "wellness" >>

StrRank == [s \in Range(StrOrder) |-> CHOOSE i \in DOMAIN StrOrder : StrOrder[i] = s]

StrLess(a, b) == StrRank[a] < StrRank[b]

Digits == << "0", "1", "2", "3", "4", "5", "6", "7", "8", "9" >>

IsDigit(c) == \E i \in DOMAIN Digits : Digits[i] = c

DigitVal(c) == (CHOOSE i \in DOMAIN Digits : Digits[i] = c) - 1

RECURSIVE DecimalValue(_)
DecimalValue(s) ==
    IF s = << >> THEN 0
    ELSE 10 * DecimalValue(SubSeq(s, 1, Len(s) - 1)) + DigitVal(s[Len(s)])

\* str(n) for n >= 0
RECURSIVE DigitsOf(_)
DigitsOf(n) ==
    IF n < 10 THEN << Digits[n + 1] >>
    ELSE DigitsOf(n \div 10) \o << Digits[(n % 10) + 1] >>

\* the "," format specification: groups of three digits from the right
RECURSIVE GroupThousands(_)
GroupThousands(d) ==
    IF Len(d) <= 3 THEN d
    ELSE GroupThousands(SubSeq(d, 1, Len(d) - 3)) \o << "," >>
             \o SubSeq(d, Len(d) - 2, Len(d))

FormatComma(n) == GroupThousands(DigitsOf(n))

---------------------------------------------------------------------------
(* DataFrame primitives *)

Cell(r, c) == r.cells[c]

WithCol(r, c, v) ==
    [r EXCEPT !.cells = [k \in (DOMAIN r.cells) \cup {c} |->
                            IF k = c THEN v ELSE r.cells[k]]]

\* pd.read_csv: the rows of the file under a RangeIndex 0..n-1
read_csv(file) ==
    [cols |-> file.cols,
     rows |-> [i \in 1..Len(file.rows) |-> [index |-> i - 1, cells |-> file.rows[i]]]]

NaT == [isna |-> TRUE, year |-> 0, month |-> 0]

NaNum == [isna |-> TRUE, val |-> 0]

IsIsoMonth(s) ==
    /\ Len(s) = 7
    /\ s[5] = "-"
    /\ \A i \in {1, 2, 3, 4, 6, 7} : IsDigit(s[i])
    /\ DecimalValue(SubSeq(s, 6, 7)) \in 1..12

\* pd.to_datetime(cell, errors=...) on a "YYYY-MM" text cell
to_datetime(s, errors) ==
    IF IsIsoMonth(s)
    THEN [raised |-> FALSE,
          value |-> [isna |-> FALSE,
                     year |-> DecimalValue(SubSeq(s, 1, 4)),
                     month |-> DecimalValue(SubSeq(s, 6, 7))]]
    ELSE IF errors = "coerce" \/ s = << >>
         THEN [raised |-> FALSE, value |-> NaT]
         ELSE [raised |-> TRUE, value |-> NaT]

\* Series.dt.year: NaT gives NaN
dt_year(d) == IF d.isna THEN NaNum ELSE [isna |-> FALSE, val |-> d.year]

IsNumeric(s) == s # << >> /\ \A i \in DOMAIN s : IsDigit(s[i])

\* pd.to_numeric(cell, errors=...) on a text cell
to_numeric(s, errors) ==
    IF IsNumeric(s)
    THEN [raised |-> FALSE, value |-> [isna |-> FALSE, val |-> DecimalValue(s)]]
    ELSE IF errors = "coerce" \/ s = << >>
         THEN [raised |-> FALSE, value |-> NaNum]
         ELSE [raised |-> TRUE, value |-> NaNum]

\* y >= n and y <= n on a numeric cell: a comparison with NaN is False
Ge(y, n) == ~y.isna /\ y.val >= n
Le(y, n) == ~y.isna /\ y.val <= n

\* == on string cells: NaN equals nothing
StrEq(a, b) == a # NaN /\ b # NaN /\ a = b

\* Series.sum() of an integer column
RECURSIVE SumCol(_, _)
SumCol(rows, c) ==
    IF rows = << >> THEN 0
    ELSE Cell(rows[1], c) + SumCol(Tail(rows), c)

\* Series.nunique(): distinct values, NaN not counted
nunique(rows, c) == Cardinality({Cell(rows[i], c) : i \in DOMAIN rows} \ {NaN})

\* DataFrame.head(n)
head(s, n) == SubSeq(s, 1, Min(n, Len(s)))

\* The orders the script sorts by.  A key of a groupby is a string or a pair
\* of strings; an aggregate row is [key, value].
Before(order, a, b) ==
    CASE order = "str" -> StrLess(a, b)
      [] order = "pair" ->
            \/ StrLess(a[1], b[1])
            \/ a[1] = b[1] /\ StrLess(a[2], b[2])
      [] order = "value desc" -> a.value > b.value
      [] order = "class asc, value desc" ->
            \/ StrLess(a.key[1], b.key[1])
            \/ a.key[1] = b.key[1] /\ a.value > b.value
      [] order = "Year" ->
            LET ya == Cell(a, "Year")
                yb == Cell(b, "Year")
            IN  ~ya.isna /\ (yb.isna \/ ya.val < yb.val)

\* sort_values / sorted: x goes before the first element it is strictly
\* before, so equal elements keep their order
RECURSIVE Insert(_, _, _)
Insert(s, x, order) ==
    IF s = << >> THEN << x >>
    ELSE IF Before(order, x, s[1]) THEN << x >> \o s
    ELSE << s[1] >> \o Insert(Tail(s), x, order)

RECURSIVE StableSort(_, _)
StableSort(s, order) ==
    IF s = << >> THEN << >>
    ELSE Insert(StableSort(SubSeq(s, 1, Len(s) - 1), order), s[Len(s)], order)

\* the group keys of a groupby in ascending order (sort=True)
RECURSIVE SortKeys(_, _)
SortKeys(S, order) ==
    IF S = {} THEN << >>
    ELSE LET m == CHOOSE x \in S : \A y \in S : ~Before(order, y, x)
         IN  << m >> \o SortKeys(S \ {m}, order)

---------------------------------------------------------------------------
(* load_data *)

\* the filter without its upper limit
YearFilterNoUpper(y) == Ge(y, YearLo)

\* the filter with an exclusive lower limit
YearFilterExclusiveLo(y) == ~y.isna /\ y.val > YearLo /\ Le(y, YearHi)

\* (df["Year"] >= 2020) & (df["Year"] <= 2025)
YearFilter(y) == Ge(y, YearLo) /\ Le(y, YearHi)

load_data_body(fileMeds, fileAfc) ==
    LET meds0 == read_csv(fileMeds)
        afc0 == read_csv(fileAfc)
        month(r) == to_datetime(Cell(r, "Month"), "coerce")
        meds1 == [meds0 EXCEPT
                    !.cols = @ \cup {"Year"},
                    !.rows = [i \in DOMAIN @ |->
                                WithCol(WithCol(@[i], "Month", month(@[i]).value),
                                        "Year", dt_year(month(@[i]).value))]]
        meds2 == IF "Month" \in meds0.cols
                 THEN [meds1 EXCEPT !.rows =
                          SelectSeq(@, LAMBDA r : YearFilter(Cell(r, "Year")))]
                 ELSE meds0
        medsRaised == /\ "Month" \in meds0.cols
                      /\ \E i \in DOMAIN meds0.rows : month(meds0.rows[i]).raised
        year(r) == to_numeric(Cell(r, "Year"), "coerce")
        afc1 == [afc0 EXCEPT
                    !.rows = [i \in DOMAIN @ |-> WithCol(@[i], "Year", year(@[i]).value)]]
        afc2 == IF "Year" \in afc0.cols
                THEN [afc1 EXCEPT !.rows =
                         SelectSeq(@, LAMBDA r : YearFilter(Cell(r, "Year")))]
                ELSE afc0
        afcRaised == /\ "Year" \in afc0.cols
                     /\ \E i \in DOMAIN afc0.rows : year(afc0.rows[i]).raised
    IN  [raised |-> medsRaised \/ afcRaised, meds |-> meds2, afc |-> afc2]

NoEntry == [full |-> FALSE]

\* load_data without its cache decorator
load_data_uncached(c, n, fileMeds, fileAfc) ==
    LET v == load_data_body(fileMeds, fileAfc)
    IN  [cache |-> IF v.raised THEN c ELSE [full |-> TRUE, value |-> v],
         reads |-> n + 1, value |-> v]

\* @st.cache_data: the body runs on a miss only; an exception is not cached
load_data(c, n, fileMeds, fileAfc) ==
    IF c.full
    THEN [cache |-> c, reads |-> n, value |-> c.value]
    ELSE LET v == load_data_body(fileMeds, fileAfc)
         IN  [cache |-> IF v.raised THEN c ELSE [full |-> TRUE, value |-> v],
              reads |-> n + 1, value |-> v]


---------------------------------------------------------------------------
(* Aggregations *)

\* df.groupby(k)[v].sum(): one [key, value] per key, keys ascending
GroupSum1(rows, k, v) ==
    LET keys == SortKeys({Cell(rows[i], k) : i \in DOMAIN rows} \ {NaN}, "str")
    IN  [j \in DOMAIN keys |->
            [key |-> keys[j],
             value |-> SumCol(SelectSeq(rows, LAMBDA r : Cell(r, k) = keys[j]), v)]]

\* df.groupby([k1, k2])[v].sum()
GroupSum2(rows, k1, k2, v) ==
    LET kept == SelectSeq(rows, LAMBDA r : Cell(r, k1) # NaN /\ Cell(r, k2) # NaN)
        keys == SortKeys({<< Cell(kept[i], k1), Cell(kept[i], k2) >> : i \in DOMAIN kept},
                         "pair")
    IN  [j \in DOMAIN keys |->
            [key |-> keys[j],
             value |-> SumCol(SelectSeq(kept, LAMBDA r :
                                 << Cell(r, k1), Cell(r, k2) >> = keys[j]), v)]]

\* df.groupby(k)[v].nunique()
GroupNunique(rows, k, v) ==
    LET keys == SortKeys({Cell(rows[i], k) : i \in DOMAIN rows} \ {NaN}, "str")
    IN  [j \in DOMAIN keys |->
            [key |-> keys[j],
             value |-> nunique(SelectSeq(rows, LAMBDA r : Cell(r, k) = keys[j]), v)]]

\* Series.dropna().unique(): first occurrences, in order
RECURSIVE DropnaUnique(_)
DropnaUnique(s) ==
    IF s = << >> THEN << >>
    ELSE LET front == DropnaUnique(SubSeq(s, 1, Len(s) - 1))
             x == s[Len(s)]
         IN  IF x = NaN \/ x \in Range(front) THEN front ELSE Append(front, x)

PyNone == [type |-> "NoneType", val |-> 0]

PyInt(n) == [type |-> "int", val |-> n]

Text(str) == [kind |-> "text", expr |-> "", text |-> str]

Interpolated(expr, chars) == [kind |-> "expr", expr |-> expr, text |-> chars]

---------------------------------------------------------------------------
(* Page 1: Dashboard Overview *)

\* zero in place of None
DashboardTotalCostZero(m, has_total_cost) ==
    IF has_total_cost THEN PyInt(SumCol(m.rows, "TOTALCOST")) ELSE PyInt(0)

DashboardTotalCost(m, has_total_cost) ==
    IF has_total_cost THEN PyInt(SumCol(m.rows, "TOTALCOST")) ELSE PyNone

\* c3.metric("Total Cost of Medicines", ...)
CostMetric(total_cost) ==
    IF total_cost # PyNone
    THEN << "$" >> \o FormatComma(total_cost.val)
    ELSE << "N", "/", "A" >>

DashboardOverview(m, a, has_total_cost) ==
    LET total_dispenses == SumCol(m.rows, "DISPENSES")
        unique_meds == nunique(m.rows, "DESCRIPTION")
        total_cost == DashboardTotalCost(m, has_total_cost)
        top == head(StableSort(GroupSum1(m.rows, "DESCRIPTION", "DISPENSES"),
                               "value desc"), TopMedsN)
        top_meds == {top[i].key : i \in DOMAIN top}
        meds_top == [m EXCEPT !.rows =
                        SelectSeq(@, LAMBDA r : Cell(r, "DESCRIPTION") \in top_meds)]
    IN  [meds |-> m,
         afc |-> a,
         out |-> [total_dispenses |-> total_dispenses,
                  unique_meds |-> unique_meds,
                  total_cost |-> total_cost,
                  c1 |-> FormatComma(total_dispenses),
                  c2 |-> FormatComma(unique_meds),
                  c3 |-> CostMetric(total_cost),
                  trend |-> IF "Year" \in meds_top.cols
                            THEN [kind |-> "chart", data |-> meds_top.rows]
                            ELSE [kind |-> "info", data |-> << >>]]]

---------------------------------------------------------------------------
(* Page 2: Forecasting by Year *)

\* the list with a threshold of one Type
MedListAtLeastOne(a) ==
    LET type_counts == GroupNunique(a.rows, "Medicine", "Type")
        valid == SelectSeq(type_counts, LAMBDA g : g.value >= 1)
        valid_meds == [i \in DOMAIN valid |-> valid[i].key]
    IN  StableSort(DropnaUnique(valid_meds), "str")

MedList(a) ==
    LET type_counts == GroupNunique(a.rows, "Medicine", "Type")
        valid == SelectSeq(type_counts, LAMBDA g : g.value >= 2)
        valid_meds == [i \in DOMAIN valid |-> valid[i].key]
    IN  StableSort(DropnaUnique(valid_meds), "str")

\* st.sidebar.selectbox: one of the options, None when there is none
Options(med_list) == IF med_list = << >> THEN {None} ELSE Range(med_list)

\* the page filtering and sorting afc itself instead of a copy
ForecastingByYearInPlace(m, a, selected_medicine) ==
    LET med_list == MedList(a)
        df_med == SelectSeq(a.rows, LAMBDA r : StrEq(Cell(r, "Medicine"), selected_medicine))
    IN  [meds |-> m,
         afc |-> IF "Year" \in a.cols
                 THEN [a EXCEPT !.rows = StableSort(df_med, "Year")]
                 ELSE [a EXCEPT !.rows = df_med],
         out |-> IF "Year" \in a.cols
                 THEN [med_list |-> med_list,
                       selected_medicine |-> selected_medicine,
                       error |-> "",
                       chart |-> StableSort(df_med, "Year")]
                 ELSE [med_list |-> med_list,
                       selected_medicine |-> selected_medicine,
                       error |-> "KeyError",
                       chart |-> << >>]]

ForecastingByYear(m, a, selected_medicine) ==
    LET med_list == MedList(a)
        df_med == SelectSeq(a.rows, LAMBDA r : StrEq(Cell(r, "Medicine"), selected_medicine))
    IN  [meds |-> m,
         afc |-> a,
         out |-> IF "Year" \in a.cols
                 THEN [med_list |-> med_list,
                       selected_medicine |-> selected_medicine,
                       error |-> "",
                       chart |-> StableSort(df_med, "Year")]
                 ELSE \* sort_values("Year") on a frame without the column
                      [med_list |-> med_list,
                       selected_medicine |-> selected_medicine,
                       error |-> "KeyError",
                       chart |-> << >>]]

---------------------------------------------------------------------------
(* Page 3: Department Usage *)

NotShown == [shown |-> FALSE, data |-> << >>]

Shown(data) == [shown |-> TRUE, data |-> data]

DeptSummary(m) ==
    StableSort(GroupSum1(m.rows, "ENCOUNTERCLASS", "DISPENSES"), "value desc")

\* the table without head(50)
TopByDeptNoHead(m) ==
    StableSort(GroupSum2(m.rows, "ENCOUNTERCLASS", "DESCRIPTION", "DISPENSES"),
               "class asc, value desc")

TopByDept(m) ==
    head(StableSort(GroupSum2(m.rows, "ENCOUNTERCLASS", "DESCRIPTION", "DISPENSES"),
                    "class asc, value desc"), HeadRows)

DepartmentUsage(m, a, has_encounterclass) ==
    [meds |-> m,
     afc |-> a,
     out |-> IF has_encounterclass
             THEN [dept_summary |-> Shown(DeptSummary(m)),
                   top_by_dept |-> Shown(TopByDept(m)),
                   info |-> ""]
             ELSE [dept_summary |-> NotShown,
                   top_by_dept |-> NotShown,
                   info |-> "ENCOUNTERCLASS column not found in medication_summary.csv"]]

---------------------------------------------------------------------------
(* Page 4: Executive Summary *)

SummaryTotalCost(m, has_total_cost) ==
    IF has_total_cost THEN PyInt(SumCol(m.rows, "TOTALCOST")) ELSE PyNone

\* the narrative with total_dispenses in the place of unique_meds
NarrativeWrongVariable(total_dispenses, unique_meds, total_cost) ==
    << Text("- **"),
       Interpolated("total_dispenses", FormatComma(total_dispenses)),
       Text("** medicine units dispensed across **"),
       Interpolated("unique_meds", DigitsOf(total_dispenses)),
       Text("** unique medicines.") >>

\* st.write(f"""...""") under "Narrative Insights"
Narrative(total_dispenses, unique_meds, total_cost) ==
    << Text("- **"),
       Interpolated("total_dispenses", FormatComma(total_dispenses)),
       Text("** medicine units dispensed across **"),
       Interpolated("unique_meds", DigitsOf(unique_meds)),
       Text("** unique medicines."),
       Text("- Ambulatory / wellness and other high-use departments can be identified from the department usage view."),
       Text("- Forecasting page compares **Actual vs Forecast** values for each medicine across years."),
       Text("- High-cost medicines can be targeted for tighter inventory and budget control.") >>

\* the cost block nested under the department check
CostBlockUnderDept(m, has_total_cost) ==
    IF has_total_cost /\ "ENCOUNTERCLASS" \in m.cols
    THEN Shown(head(StableSort(GroupSum1(m.rows, "DESCRIPTION", "TOTALCOST"),
                               "value desc"), TopCostN))
    ELSE NotShown

CostBlock(m, has_total_cost) ==
    IF has_total_cost
    THEN Shown(head(StableSort(GroupSum1(m.rows, "DESCRIPTION", "TOTALCOST"),
                               "value desc"), TopCostN))
    ELSE NotShown

DeptBlock(m, has_encounterclass) ==
    IF has_encounterclass THEN Shown(DeptSummary(m)) ELSE NotShown

ExecutiveSummary(m, a, has_total_cost, has_encounterclass) ==
    LET total_dispenses == SumCol(m.rows, "DISPENSES")
        unique_meds == nunique(m.rows, "DESCRIPTION")
        total_cost == SummaryTotalCost(m, has_total_cost)
    IN  [meds |-> m,
         afc |-> a,
         out |-> [total_dispenses |-> total_dispenses,
                  unique_meds |-> unique_meds,
                  total_cost |-> total_cost,
                  c1 |-> FormatComma(total_dispenses),
                  c2 |-> FormatComma(unique_meds),
                  c3 |-> CostMetric(total_cost),
                  cost_group |-> CostBlock(m, has_total_cost),
                  dept_summary |-> DeptBlock(m, has_encounterclass),
                  narrative |-> Narrative(total_dispenses, unique_meds, total_cost)]]

---------------------------------------------------------------------------
(* The two CSV files *)

Chars2019Dec == << "2", "0", "1", "9", "-", "1", "2" >>
Chars2020Jan == << "2", "0", "2", "0", "-", "0", "1" >>
Chars2021Mar == << "2", "0", "2", "1", "-", "0", "3" >>
Chars2025Dec == << "2", "0", "2", "5", "-", "1", "2" >>
Chars2026Jan == << "2", "0", "2", "6", "-", "0", "1" >>
CharsUnknown == << "u", "n", "k", "n", "o", "w", "n" >>

MedsRow(d, mo, n, cost, ec) ==
    [DESCRIPTION |-> d, Month |-> mo, DISPENSES |-> n, TOTALCOST |-> cost,
     ENCOUNTERCLASS |-> ec]

MedsPool ==
    { MedsRow("Aspirin", Chars2021Mar, 10, 250, "ambulatory"),
      MedsRow("Aspirin", Chars2019Dec, 999, 100, "inpatient"),
      MedsRow("Ibuprofen", Chars2020Jan, 7, 0, "inpatient"),
      MedsRow("Ibuprofen", Chars2025Dec, 25, 1040, "ambulatory"),
      MedsRow("Aspirin", Chars2026Jan, 3, 5, "ambulatory"),
      MedsRow("Codeine", CharsUnknown, 20, 60, "emergency"),
      MedsRow("Codeine", << >>, 1000, 0, "emergency"),
      MedsRow(NaN, Chars2021Mar, 4, 8, NaN) }

MedsAllCols == {"DESCRIPTION", "Month", "DISPENSES", "TOTALCOST", "ENCOUNTERCLASS"}

MedsOptionalCols == {"Month", "TOTALCOST", "ENCOUNTERCLASS"}

AfcRow(med, type, year, value) ==
    [Medicine |-> med, Type |-> type, Year |-> year, Value |-> value]

AfcPool ==
    { AfcRow("Ibuprofen", "Actual", << "2", "0", "2", "1" >>, 5),
      AfcRow("Ibuprofen", "Projected", << "2", "0", "2", "0" >>, 6),
      AfcRow("Aspirin", "Actual", << "2", "0", "2", "2" >>, 3),
      AfcRow("Aspirin", "Forecast", << "2", "0", "2", "5" >>, 4),
      AfcRow("Aspirin", "Actual", << "a", "b", "c" >>, 9) }

AfcAllCols == {"Medicine", "Type", "Year", "Value"}

Restrict(r, cols) == [c \in cols |-> r[c]]

File(cols, rows) == [cols |-> cols, rows |-> [i \in DOMAIN rows |-> Restrict(rows[i], cols)]]

SeqsUpTo(S, n) == UNION {[1..k -> S] : k \in 0..n}

\* medication_summary.csv with any of the optional columns absent
SmallMedsFiles ==
    {File(MedsAllCols \ absent, rows) :
        absent \in SUBSET MedsOptionalCols, rows \in SeqsUpTo(MedsPool, MaxMedsRows)}

\* actual_forecast_combined.csv with or without its Year column
SmallAfcFiles ==
    {File(AfcAllCols \ absent, rows) :
        absent \in SUBSET {"Year"}, rows \in SeqsUpTo(AfcPool, MaxAfcRows)}

DeptNames == << "ambulatory", "inpatient", "wellness" >>

\* A medication file of n rows, one per (department, medicine) pair, written
\* last pair first; every department has Len(MedNames) medicines.
LargeMedsFile(n, p) ==
    LET pair(j) == n - j
    IN  File(MedsAllCols,
             [j \in 1..n |->
                 MedsRow(MedNames[(pair(j) % Len(MedNames)) + 1], Chars2021Mar,
                         ((pair(j) * p) % 7) + 1, pair(j),
                         DeptNames[(pair(j) \div Len(MedNames)) + 1])])

LargeMedsFiles ==
    {LargeMedsFile(n, p) : n \in (HeadRows - 1)..MaxDeptGroups, p \in 1..3}

SampleMedsFile ==
    File(MedsAllCols, << MedsRow("Aspirin", Chars2021Mar, 10, 250, "ambulatory"),
                         MedsRow("Ibuprofen", Chars2019Dec, 7, 40, "inpatient"),
                         MedsRow("Codeine", CharsUnknown, 20, 60, "emergency") >>)

SampleAfcFile ==
    File(AfcAllCols, << AfcRow("Ibuprofen", "Forecast", << "2", "0", "2", "2" >>, 7),
                        AfcRow("Ibuprofen", "Actual", << "2", "0", "2", "1" >>, 5),
                        AfcRow("Aspirin", "Actual", << "a", "b", "c" >>, 9),
                        AfcRow("Aspirin", "Forecast", << "2", "0", "2", "6" >>, 4),
                        AfcRow(NaN, "Forecast", << "2", "0", "1", "9" >>, 2) >>)

---------------------------------------------------------------------------
(* The script *)

NoTable == [cols |-> {}, rows |-> << >>]

Init ==
    /\ \/ srcMeds \in SmallMedsFiles /\ srcAfc = SampleAfcFile
       \/ srcMeds \in LargeMedsFiles /\ srcAfc = SampleAfcFile
       \/ srcMeds = SampleMedsFile /\ srcAfc \in SmallAfcFiles
    /\ cache = NoEntry
    /\ reads = 0
    /\ meds = NoTable
    /\ afc = NoTable
    /\ page = "none"
    /\ runs = 0
    /\ out = [error |-> ""]

\* lines 35-38: meds, afc = load_data() and the two column flags
Loaded == load_data(cache, reads, srcMeds, srcAfc)

has_total_cost(m) == "TOTALCOST" \in m.cols

has_encounterclass(m) == "ENCOUNTERCLASS" \in m.cols

\* an exception of load_data ends the run before any page is computed
Finish(ld, name, r) ==
    /\ runs < MaxRuns
    /\ runs' = runs + 1
    /\ cache' = ld.cache
    /\ reads' = ld.reads
    /\ IF ld.value.raised
       THEN /\ page' = "error"
            /\ out' = [error |-> "load_data"]
            /\ UNCHANGED << meds, afc >>
       ELSE /\ page' = name
            /\ meds' = r.meds
            /\ afc' = r.afc
            /\ out' = r.out
    /\ UNCHANGED << srcMeds, srcAfc >>

RunDashboardOverview ==
    LET ld == Loaded
        m == ld.value.meds
    IN  Finish(ld, "Dashboard Overview",
               DashboardOverview(m, ld.value.afc, has_total_cost(m)))

RunForecastingByYear ==
    LET ld == Loaded
    IN  \E selected_medicine \in Options(MedList(ld.value.afc)) :
            Finish(ld, "Forecasting by Year",
                   ForecastingByYear(ld.value.meds, ld.value.afc, selected_medicine))

RunDepartmentUsage ==
    LET ld == Loaded
        m == ld.value.meds
    IN  Finish(ld, "Department Usage",
               DepartmentUsage(m, ld.value.afc, has_encounterclass(m)))

RunExecutiveSummary ==
    LET ld == Loaded
        m == ld.value.meds
    IN  Finish(ld, "Executive Summary",
               ExecutiveSummary(m, ld.value.afc, has_total_cost(m), has_encounterclass(m)))

Next ==
    \/ RunDashboardOverview
    \/ RunForecastingByYear
    \/ RunDepartmentUsage
    \/ RunExecutiveSummary

Spec == Init /\ [][Next]_vars

---------------------------------------------------------------------------
(* What the claims speak about, stated on the files themselves *)

Rendered == page \notin {"none", "error"}

InRange(y) == 2020 <= y /\ y <= 2025

TextYear(chars) == DecimalValue(SubSeq(chars, 1, 4))

\* the rows of medication_summary.csv (by position) inside 2020-2025; all of
\* them when the file has no Month column
RetainedMeds ==
    {i \in DOMAIN srcMeds.rows :
        "Month" \in srcMeds.cols =>
            /\ IsIsoMonth(srcMeds.rows[i].Month)
            /\ InRange(TextYear(srcMeds.rows[i].Month))}

RECURSIVE SumOver(_, _, _)
SumOver(S, rows, c) ==
    IF S = {} THEN 0
    ELSE LET i == CHOOSE j \in S : TRUE
         IN  rows[i][c] + SumOver(S \ {i}, rows, c)

Labels(t) == {t.rows[k].index : k \in DOMAIN t.rows}

\* C1: after load_data, when the medication file has a Month column every
\* retained medication row has a year in 2020..2025, and no row with an
\* unparseable Month is retained; when the actual/forecast file has a Year
\* column every retained row has a year in 2020..2025, and no row with a
\* non-numeric Year is retained; the load raises no exception.
C1_LoadedYearsInRange ==
    page # "none" =>
        /\ page # "error"
        /\ "Month" \in srcMeds.cols =>
              /\ \A k \in DOMAIN meds.rows :
                    /\ ~Cell(meds.rows[k], "Year").isna
                    /\ InRange(Cell(meds.rows[k], "Year").val)
              /\ \A i \in DOMAIN srcMeds.rows :
                    ~IsIsoMonth(srcMeds.rows[i].Month) => (i - 1) \notin Labels(meds)
        /\ "Year" \in srcAfc.cols =>
              /\ \A k \in DOMAIN afc.rows :
                    /\ ~Cell(afc.rows[k], "Year").isna
                    /\ InRange(Cell(afc.rows[k], "Year").val)
              /\ \A i \in DOMAIN srcAfc.rows :
                    ~IsNumeric(srcAfc.rows[i].Year) => (i - 1) \notin Labels(afc)

\* C1 witness: a load of files that hold an unparseable Month and a
\* non-numeric Year, with rows retained from both
C1_Witness ==
    /\ Rendered
    /\ "Month" \in srcMeds.cols
    /\ \E i \in DOMAIN srcMeds.rows : srcMeds.rows[i].Month = CharsUnknown
    /\ "Year" \in srcAfc.cols
    /\ \E i \in DOMAIN srcAfc.rows : ~IsNumeric(srcAfc.rows[i].Year)
    /\ meds.rows # << >>
    /\ afc.rows # << >>

SrcTypes(med) ==
    {srcAfc.rows[i].Type : i \in {j \in DOMAIN srcAfc.rows : srcAfc.rows[j].Medicine = med}}
        \ {NaN}

\* C2: the medicine list of the Forecasting by Year page holds no medicine
\* with fewer than 2 distinct Type values in the actual/forecast file, and is
\* strictly ascending (sorted, no duplicates).
C2_MedListEligibleSorted ==
    page = "Forecasting by Year" =>
        /\ \A i \in DOMAIN out.med_list : Cardinality(SrcTypes(out.med_list[i])) >= 2
        /\ \A i, j \in DOMAIN out.med_list :
              i < j => StrLess(out.med_list[i], out.med_list[j])

\* C2 witness: two medicines are listed, from a file that names the later
\* one first
C2_Witness ==
    /\ page = "Forecasting by Year"
    /\ Len(out.med_list) = 2
    /\ srcAfc.rows[1].Medicine = "Ibuprofen"

\* C3: every medicine of the list has a row of Type "Actual" and a row of
\* Type "Forecast".
C3_ListedHaveActualAndForecast ==
    page = "Forecasting by Year" =>
        \A i \in DOMAIN out.med_list :
            /\ \E k \in DOMAIN afc.rows :
                  /\ Cell(afc.rows[k], "Medicine") = out.med_list[i]
                  /\ Cell(afc.rows[k], "Type") = "Actual"
            /\ \E k \in DOMAIN afc.rows :
                  /\ Cell(afc.rows[k], "Medicine") = out.med_list[i]
                  /\ Cell(afc.rows[k], "Type") = "Forecast"

\* the (ENCOUNTERCLASS, DESCRIPTION) pairs of the loaded medication table
DeptGroups ==
    {<< Cell(meds.rows[k], "ENCOUNTERCLASS"), Cell(meds.rows[k], "DESCRIPTION") >> :
        k \in {j \in DOMAIN meds.rows :
                  /\ Cell(meds.rows[j], "ENCOUNTERCLASS") # NaN
                  /\ Cell(meds.rows[j], "DESCRIPTION") # NaN}}

GroupDispenses(g) ==
    SumOver({k \in DOMAIN meds.rows :
                /\ Cell(meds.rows[k], "ENCOUNTERCLASS") = g[1]
                /\ Cell(meds.rows[k], "DESCRIPTION") = g[2]},
            [k \in DOMAIN meds.rows |-> meds.rows[k].cells], "DISPENSES")

\* C4: the displayed department table has at most 50 rows, DISPENSES does
\* not increase along a run of one ENCOUNTERCLASS, and the rows are the
\* first 50 of the whole sequence in (ENCOUNTERCLASS ascending, DISPENSES
\* descending) order: one row per pair with its sum, departments ascending,
\* and no omitted pair belongs before a displayed one.
C4_DeptTableFirst50 ==
    (page = "Department Usage" /\ out.top_by_dept.shown) =>
        LET t == out.top_by_dept.data
            shown == {t[i].key : i \in DOMAIN t}
        IN  /\ Len(t) <= 50
            /\ Len(t) = Min(50, Cardinality(DeptGroups))
            /\ Cardinality(shown) = Len(t)
            /\ \A i \in DOMAIN t :
                  /\ t[i].key \in DeptGroups
                  /\ t[i].value = GroupDispenses(t[i].key)
            /\ \A i \in 1..(Len(t) - 1) :
                  /\ ~StrLess(t[i + 1].key[1], t[i].key[1])
                  /\ t[i].key[1] = t[i + 1].key[1] => t[i].value >= t[i + 1].value
            /\ \A g \in DeptGroups \ shown : \A i \in DOMAIN t :
                  /\ ~StrLess(g[1], t[i].key[1])
                  /\ g[1] = t[i].key[1] => GroupDispenses(g) <= t[i].value

\* C4 witness: 50 rows are displayed, a department of the table is entirely
\* cut off, and a displayed department has rows of different sums
C4_Witness ==
    /\ page = "Department Usage"
    /\ out.top_by_dept.shown
    /\ Len(out.top_by_dept.data) = 50
    /\ \E g \in DeptGroups :
          \A i \in DOMAIN out.top_by_dept.data : out.top_by_dept.data[i].key[1] # g[1]
    /\ \E i \in DOMAIN out.top_by_dept.data :
          /\ i > 1
          /\ out.top_by_dept.data[i].key[1] = out.top_by_dept.data[i - 1].key[1]
          /\ out.top_by_dept.data[i].value < out.top_by_dept.data[i - 1].value

\* C5: without an ENCOUNTERCLASS column the Department Usage page shows
\* neither table and reports the column as not found, raising nothing; the
\* Executive Summary page omits the department block and shows the cost
\* block exactly when TOTALCOST is present.
C5_NoEncounterClass ==
    "ENCOUNTERCLASS" \notin srcMeds.cols =>
        /\ page # "error"
        /\ page = "Department Usage" =>
              /\ ~out.dept_summary.shown
              /\ ~out.top_by_dept.shown
              /\ out.info = "ENCOUNTERCLASS column not found in medication_summary.csv"
        /\ page = "Executive Summary" =>
              /\ ~out.dept_summary.shown
              /\ out.cost_group.shown <=> "TOTALCOST" \in srcMeds.cols

\* C5 witness: an Executive Summary without ENCOUNTERCLASS and with
\* TOTALCOST, whose cost block lists a medicine
C5_Witness ==
    /\ page = "Executive Summary"
    /\ "ENCOUNTERCLASS" \notin srcMeds.cols
    /\ "TOTALCOST" \in srcMeds.cols
    /\ out.cost_group.shown
    /\ out.cost_group.data # << >>

\* C6: on the Dashboard Overview and Executive Summary pages total_cost is
\* None (shown as "N/A", never the number 0) when the file has no TOTALCOST
\* column, and the sum of TOTALCOST over the retained rows when it has.
C6_TotalCostSentinel ==
    page \in {"Dashboard Overview", "Executive Summary"} =>
        IF "TOTALCOST" \in srcMeds.cols
        THEN /\ out.total_cost.type = "int"
             /\ out.total_cost.val = SumOver(RetainedMeds, srcMeds.rows, "TOTALCOST")
        ELSE /\ out.total_cost.type = "NoneType"
             /\ out.c3 = << "N", "/", "A" >>

\* C6 witness: a Dashboard Overview of a non-empty table without TOTALCOST
C6_Witness ==
    /\ page = "Dashboard Overview"
    /\ "TOTALCOST" \notin srcMeds.cols
    /\ meds.rows # << >>
    /\ out.c3 = << "N", "/", "A" >>

\* C7: on the Dashboard Overview page unique_meds is the number of distinct
\* (non-missing) DESCRIPTION values of the retained rows and total_dispenses
\* is the sum of DISPENSES over the retained rows.
C7_OverviewOverRetainedRows ==
    page = "Dashboard Overview" =>
        /\ out.unique_meds =
              Cardinality({srcMeds.rows[i].DESCRIPTION : i \in RetainedMeds} \ {NaN})
        /\ out.total_dispenses = SumOver(RetainedMeds, srcMeds.rows, "DISPENSES")

\* C7 witness: the rows Aspirin/2021/10 and Aspirin/2019/999 give
\* total_dispenses = 10 and unique_meds = 1
C7_Witness ==
    /\ page = "Dashboard Overview"
    /\ "Month" \in srcMeds.cols
    /\ Len(srcMeds.rows) = 2
    /\ srcMeds.rows[1].DESCRIPTION = "Aspirin"
    /\ TextYear(srcMeds.rows[1].Month) = 2021
    /\ srcMeds.rows[1].DISPENSES = 10
    /\ srcMeds.rows[2].DESCRIPTION = "Aspirin"
    /\ TextYear(srcMeds.rows[2].Month) = 2019
    /\ srcMeds.rows[2].DISPENSES = 999
    /\ out.total_dispenses = 10
    /\ out.unique_meds = 1

InterpolatedExprs ==
    {out.narrative[i].expr : i \in {j \in DOMAIN out.narrative : out.narrative[j].kind = "expr"}}

NarrativeNumber(expr) ==
    LET part == out.narrative[CHOOSE i \in DOMAIN out.narrative : out.narrative[i].expr = expr]
    IN  DecimalValue(SelectSeq(part.text, IsDigit))

\* C8 as stated: the narrative of the Executive Summary page interpolates
\* total_dispenses, unique_meds and total_cost.
C8_NarrativeHasThreeScalars ==
    page = "Executive Summary" =>
        {"total_dispenses", "unique_meds", "total_cost"} \subseteq InterpolatedExprs

\* C8 amended: the narrative interpolates exactly total_dispenses and
\* unique_meds, with the values of the page's scalars; total_cost is not in it.
C8_NarrativeHasTwoScalars ==
    page = "Executive Summary" =>
        /\ InterpolatedExprs = {"total_dispenses", "unique_meds"}
        /\ NarrativeNumber("total_dispenses") = out.total_dispenses
        /\ NarrativeNumber("unique_meds") = out.unique_meds

\* C8 witness: an Executive Summary with a known total cost and a total of
\* dispenses that needs a thousands separator
C8_Witness ==
    /\ page = "Executive Summary"
    /\ out.total_cost.type = "int"
    /\ out.total_dispenses >= 1000
    /\ out.unique_meds # out.total_dispenses

\* C9: the body of load_data runs at most once in a process and has run
\* before any page is computed; every later call returns the same two
\* tables without reading the files again.
C9_LoadedOnceAndCached ==
    /\ [](/\ reads <= 1
          /\ page # "none" => (reads = 1 /\ cache.full))
    /\ [][Rendered => /\ reads' = reads
                      /\ cache' = cache
                      /\ meds' = meds
                      /\ afc' = afc]_vars

\* C9 witness: a second run has rendered a page after one read of the files
C9_Witness ==
    /\ runs >= 2
    /\ Rendered
    /\ reads = 1
    /\ meds.rows # << >>

\* C10: after any sequence of page renders the medication table and the
\* actual/forecast table are the tables load_data returned.
C10_TablesUnchanged ==
    Rendered =>
        /\ meds = cache.value.meds
        /\ afc = cache.value.afc
        /\ cache.value = load_data_body(srcMeds, srcAfc)

\* C10 witness: a second run showed the rows of one medicine, fewer than
\* the table holds and in another order than the table's
C10_Witness ==
    /\ runs >= 2
    /\ page = "Forecasting by Year"
    /\ Len(out.chart) >= 2
    /\ Len(out.chart) < Len(afc.rows)
    /\ out.chart[1].index > out.chart[2].index

====
